---- MODULE Spec2Model ----
(***************************************************************************)
(* kubesync: a distributed mutex whose whole state is one Kubernetes Lease *)
(* record.  The model follows src/mutex.go (Lock, Extend, Unlock),         *)
(* src/kubesync.go (New) and the clock/sleep helpers.  Every store request *)
(* (Create, Get, Update) is one atomic step of the store; the code between *)
(* two requests runs in the step of the request that precedes it.          *)
(* Time is counted in whole seconds.                                       *)
(***************************************************************************)
EXTENDS Integers, Sequences, FiniteSets, TLC

(* ------------------------------ bounds -------------------------------- *)

\* The clock is advanced at most MaxTicks times.
MaxTicks == 3

\* At most MaxCalls calls are made in a run, over all Mutexes.
MaxCalls == 4

\* At most MaxFaults store requests fail for a reason other than a conflict.
MaxFaults == 1

(* ------------------------- program constants -------------------------- *)

\* Mutex.expiration, in seconds.
expiration == 10

\* The clock is read at instants Quantum seconds apart: twice per lease term,
\* so that a lease is seen before, at and after its expiration time.
Quantum == expiration \div 2

(* ------------------------------ values -------------------------------- *)

\* The Mutex objects of the run, all naming the same lock.
Mutexes == {"m1", "m2"}

\* A Go pointer field: nil, or a pointer to v.
None == <<>>

Some(v) == <<v>>

\* The value a non-nil pointer points to.
Deref(p) == p[1]

\* kubesync.New: the identity is the instance label joined with a fresh
\* UUID, so two Syncers built from one label differ.
New(instanceID, uuid) == [uniqueID |-> <<instanceID, uuid>>]

\* Syncer.NewMutex: the Mutex copies its Syncer's identity.
NewMutex(s) == s.uniqueID

\* coordinationv1.LeaseSpec{} as Lock's Create submits it.
EmptySpec ==
  [ holderIdentity       |-> None,
    acquireTime          |-> None,
    renewTime            |-> None,
    leaseDurationSeconds |-> None,
    leaseTransitions     |-> None ]

\* No Lease object: the store before Create, a Mutex between two fetches.
NoLease == [exists |-> FALSE, resourceVersion |-> 0, spec |-> EmptySpec]

VARIABLES
  store,      \* the Lease record in the store, with its resourceVersion
  now,        \* the wall clock
  uniqueID,   \* Mutex.uniqueID of each Mutex
  pc,         \* where each Mutex's current call stands
  op,         \* the method of the current (or last) call of each Mutex
  ctxDone,    \* whether the context of the current call is cancelled
  lease,      \* the `lease` local of the current call: the fetched object
  result,     \* what the last call returned ("pending" during a call)
  budget,     \* calls that may still be started
  faults,     \* store failures other than conflicts so far
  held,       \* per Mutex: the time its last successful Lock/Extend wrote,
              \* from the return of Lock until its successful Unlock
  requests    \* per Mutex: the store requests (Get, Update) its current or
              \* last Extend or Unlock call has issued

vars == << store, now, uniqueID, pc, op, ctxDone, lease, result, budget,
           faults, held, requests >>

(* --------------------------- pure functions --------------------------- *)

\* lock, lines 146-150: the renew time if it exists, otherwise the acquire
\* time.
LastUpdatedTime(s) ==
  IF s.renewTime # None THEN Deref(s.renewTime) ELSE Deref(s.acquireTime)

\* Mutant of StillValid: a held lease never counts as expired.
StillValidForever(s, t) == TRUE

\* Mutant of StillValid: a lease whose expiration equals the current time
\* still counts as valid.
StillValidAtExpiry(s, t) ==
  LastUpdatedTime(s) + Deref(s.leaseDurationSeconds) >= t

\* lock, line 152: lastUpdatedTime.Add(leaseDur).After(now().Time).
StillValid(s, t) ==
  LastUpdatedTime(s) + Deref(s.leaseDurationSeconds) > t

\* Mutant of Malformed: only the duration is looked for.
MalformedOnlyDuration(s) == s.leaseDurationSeconds = None

\* lock, line 139: a held lease without duration or acquire time.
Malformed(s) ==
  s.leaseDurationSeconds = None \/ s.acquireTime = None

\* Mutant of NextTransitions: every claim restarts the counter.
NextTransitionsRestart(s) == 1

\* lock, lines 161-165: the counter read as 0 when absent, plus one.
NextTransitions(s) ==
  (IF s.leaseTransitions # None THEN Deref(s.leaseTransitions) ELSE 0) + 1

\* Mutant of Claim: the lease duration is not written.
ClaimWithoutDuration(s, id, t) ==
  [ s EXCEPT !.holderIdentity   = Some(id),
             !.leaseTransitions = Some(NextTransitions(s)),
             !.acquireTime      = Some(t) ]

\* lock, lines 167-171: the claim written into the fetched spec.
Claim(s, id, t) ==
  [ s EXCEPT !.holderIdentity       = Some(id),
             !.leaseTransitions     = Some(NextTransitions(s)),
             !.acquireTime          = Some(t),
             !.leaseDurationSeconds = Some(expiration) ]

\* Mutant of Renew: the renewal also restarts the acquire time.
RenewResetsAcquire(s, t) ==
  [s EXCEPT !.renewTime = Some(t), !.acquireTime = Some(t)]

\* Extend, line 213.
Renew(s, t) == [s EXCEPT !.renewTime = Some(t)]

\* Mutant of Release: the counter is cleared with the other fields.
ReleaseResetsTransitions(s) == EmptySpec

\* Mutant of Release: the holder is left in place.
ReleaseKeepsHolder(s) ==
  [ s EXCEPT !.acquireTime          = None,
             !.renewTime            = None,
             !.leaseDurationSeconds = None ]

\* Unlock, lines 242-245.
Release(s) ==
  [ s EXCEPT !.holderIdentity       = None,
             !.acquireTime          = None,
             !.renewTime            = None,
             !.leaseDurationSeconds = None ]

\* Mutant of OwnerCheck: the holder is not compared with the caller.
OwnerCheckAnyHolder(s, id) ==
  IF s.holderIdentity = None THEN "ErrNotLocked" ELSE "ok"

\* Mutant of OwnerCheck: an unlocked lease passes the check.
OwnerCheckUnlockedPasses(s, id) ==
  IF s.holderIdentity # None /\ Deref(s.holderIdentity) # id
  THEN "ErrLockedByAnother" ELSE "ok"

\* Extend lines 203-210, Unlock lines 231-238: the ownership check.
OwnerCheck(s, id) ==
  IF s.holderIdentity = None THEN "ErrNotLocked"
  ELSE IF Deref(s.holderIdentity) # id THEN "ErrLockedByAnother"
  ELSE "ok"

\* lock, lines 185-189.
LockReturn(done) == IF done THEN "ctxErr" ELSE "ok"

(* ------------------------------ the store ------------------------------ *)

\* Update is accepted only for the version that was fetched.
UpdateAccepted(obj) ==
  store.exists /\ obj.resourceVersion = store.resourceVersion

\* The record after an accepted Update of obj.
Updated(obj) ==
  [exists |-> TRUE, resourceVersion |-> store.resourceVersion + 1,
   spec |-> obj.spec]

\* The record after Create: an accepted Create stores the empty spec, an
\* already existing record is left as it is.
Created ==
  IF store.exists THEN store
  ELSE [exists |-> TRUE, resourceVersion |-> 1, spec |-> EmptySpec]

(* ------------------------------- Init ---------------------------------- *)

\* The two Mutexes come from one Syncer or from two Syncers built from the
\* same instance label (as in TestShouldSupportDistributedLocking).
Identities ==
  { [m \in Mutexes |-> NewMutex(New("host", IF m = "m1" THEN 1 ELSE u))] :
      u \in {1, 2} }

InitCommon ==
  /\ store = NoLease
  /\ now = 0
  /\ uniqueID \in Identities
  /\ pc = [m \in Mutexes |-> "idle"]
  /\ op = [m \in Mutexes |-> "none"]
  /\ ctxDone = [m \in Mutexes |-> FALSE]
  /\ lease = [m \in Mutexes |-> NoLease]
  /\ result = [m \in Mutexes |-> "none"]
  /\ faults = 0
  /\ held = [m \in Mutexes |-> None]
  /\ requests = [m \in Mutexes |-> 0]

Init ==
  /\ InitCommon
  /\ budget = MaxCalls

(* ------------------------------ helpers -------------------------------- *)

\* A call of m returns r.
Return(m, r) ==
  /\ pc' = [pc EXCEPT ![m] = "idle"]
  /\ result' = [result EXCEPT ![m] = r]
  /\ lease' = [lease EXCEPT ![m] = NoLease]
  /\ ctxDone' = [ctxDone EXCEPT ![m] = FALSE]

\* A call of m starts.
Start(m, o, p, done) ==
  /\ pc[m] = "idle"
  /\ budget > 0
  /\ budget' = budget - 1
  /\ op' = [op EXCEPT ![m] = o]
  /\ pc' = [pc EXCEPT ![m] = p]
  /\ ctxDone' = [ctxDone EXCEPT ![m] = done]
  /\ result' = [result EXCEPT ![m] = "pending"]
  /\ requests' = [requests EXCEPT ![m] = 0]
  /\ UNCHANGED << store, now, uniqueID, lease, faults, held >>

(* ------------------------------ the clock ------------------------------ *)

Tick ==
  /\ now < MaxTicks * Quantum
  /\ now' = now + Quantum
  /\ UNCHANGED << store, uniqueID, pc, op, ctxDone, lease, result, budget,
                  faults, held, requests >>

\* The caller cancels the context of a Lock call in progress.
Cancel(m) ==
  /\ op[m] = "Lock"
  /\ pc[m] # "idle"
  /\ ~ctxDone[m]
  /\ ctxDone' = [ctxDone EXCEPT ![m] = TRUE]
  /\ UNCHANGED << store, now, uniqueID, pc, op, lease, result, budget,
                  faults, held, requests >>

(* ------------------------------- Lock ---------------------------------- *)

\* Lock is called with a context that is live (FALSE) or already cancelled
\* (TRUE), as Done allows.
StartLock(m, Done) == \E done \in Done : Start(m, "Lock", "lockCreate", done)

\* lock, lines 113-126: Create; already-exists is ignored.
LockCreate(m) ==
  /\ pc[m] = "lockCreate"
  /\ store' = Created
  /\ pc' = [pc EXCEPT ![m] = "lockLoop"]
  /\ UNCHANGED << now, uniqueID, op, ctxDone, lease, result, budget, faults,
                  held, requests >>

\* lock, lines 123-125: Create fails for another reason.
LockCreateFails(m) ==
  /\ pc[m] = "lockCreate"
  /\ faults < MaxFaults
  /\ faults' = faults + 1
  /\ Return(m, "storeErr")
  /\ UNCHANGED << store, now, uniqueID, op, budget, held, requests >>

\* lock, line 129 with the context cancelled: the loop is left.
LockLoopExit(m) ==
  /\ pc[m] = "lockLoop"
  /\ ctxDone[m]
  /\ pc' = [pc EXCEPT ![m] = "lockExit"]
  /\ UNCHANGED << store, now, uniqueID, op, ctxDone, lease, result, budget,
                  faults, held, requests >>

\* lock, lines 130-133: Get fails.
LockGetFails(m) ==
  /\ pc[m] = "lockLoop"
  /\ ~ctxDone[m]
  /\ faults < MaxFaults
  /\ faults' = faults + 1
  /\ Return(m, "storeErr")
  /\ UNCHANGED << store, now, uniqueID, op, budget, held, requests >>

\* Mutant of LockGet: a lease held by the caller's own identity is claimed
\* again at once.
LockGetReentrant(m) ==
  /\ pc[m] = "lockLoop"
  /\ ~ctxDone[m]
  /\ store.exists
  /\ IF store.spec.holderIdentity # None /\ Malformed(store.spec)
     THEN Return(m, "malformed")
     ELSE IF /\ store.spec.holderIdentity # None
             /\ Deref(store.spec.holderIdentity) # uniqueID[m]
             /\ StillValid(store.spec, now)
     THEN /\ pc' = [pc EXCEPT ![m] = "lockSleep"]
          /\ UNCHANGED << lease, result, ctxDone >>
     ELSE /\ lease' = [lease EXCEPT ![m] =
                         [store EXCEPT
                            !.spec = Claim(store.spec, uniqueID[m], now)]]
          /\ pc' = [pc EXCEPT ![m] = "lockUpdate"]
          /\ UNCHANGED << result, ctxDone >>
  /\ UNCHANGED << store, now, uniqueID, op, budget, faults, held, requests >>

\* lock, lines 130-171: Get succeeds.  A held lease that is malformed ends
\* the call; one that is still valid sends it to sleep; otherwise (unlocked
\* or expired) the claim is written into the fetched object.
LockGet(m) ==
  /\ pc[m] = "lockLoop"
  /\ ~ctxDone[m]
  /\ store.exists
  /\ IF store.spec.holderIdentity # None /\ Malformed(store.spec)
     THEN Return(m, "malformed")
     ELSE IF store.spec.holderIdentity # None /\ StillValid(store.spec, now)
     THEN /\ pc' = [pc EXCEPT ![m] = "lockSleep"]
          /\ UNCHANGED << lease, result, ctxDone >>
     ELSE /\ lease' = [lease EXCEPT ![m] =
                         [store EXCEPT
                            !.spec = Claim(store.spec, uniqueID[m], now)]]
          /\ pc' = [pc EXCEPT ![m] = "lockUpdate"]
          /\ UNCHANGED << result, ctxDone >>
  /\ UNCHANGED << store, now, uniqueID, op, budget, faults, held, requests >>

\* lock, lines 174-178: the Update is accepted; break.
LockUpdate(m) ==
  /\ pc[m] = "lockUpdate"
  /\ UpdateAccepted(lease[m])
  /\ store' = Updated(lease[m])
  /\ pc' = [pc EXCEPT ![m] = "lockAcquired"]
  /\ UNCHANGED << now, uniqueID, op, ctxDone, lease, result, budget, faults,
                  held, requests >>

\* Mutant of LockUpdateConflict: the error of the rejected Update is
\* ignored and the loop is left as after an accepted one.
LockUpdateConflictIgnored(m) ==
  /\ pc[m] = "lockUpdate"
  /\ ~UpdateAccepted(lease[m])
  /\ pc' = [pc EXCEPT ![m] = "lockAcquired"]
  /\ UNCHANGED << store, now, uniqueID, op, ctxDone, lease, result, budget,
                  faults, held, requests >>

\* lock, lines 174-181: the Update is rejected as a conflict.
LockUpdateConflict(m) ==
  /\ pc[m] = "lockUpdate"
  /\ ~UpdateAccepted(lease[m])
  /\ pc' = [pc EXCEPT ![m] = "lockSleep"]
  /\ lease' = [lease EXCEPT ![m] = NoLease]
  /\ UNCHANGED << store, now, uniqueID, op, ctxDone, result, budget, faults,
                  held, requests >>

\* lock, lines 174-181: the Update fails for another reason.
LockUpdateFails(m) ==
  /\ pc[m] = "lockUpdate"
  /\ faults < MaxFaults
  /\ faults' = faults + 1
  /\ pc' = [pc EXCEPT ![m] = "lockSleep"]
  /\ lease' = [lease EXCEPT ![m] = NoLease]
  /\ UNCHANGED << store, now, uniqueID, op, ctxDone, result, budget, held,
                  requests >>

\* sleep (lines 154 and 181 of lock): the timer fires; continue.
LockSleepDone(m) ==
  /\ pc[m] = "lockSleep"
  /\ ~ctxDone[m]
  /\ pc' = [pc EXCEPT ![m] = "lockLoop"]
  /\ UNCHANGED << store, now, uniqueID, op, ctxDone, lease, result, budget,
                  faults, held, requests >>

\* sleep: the context is done; lock returns its error.
LockSleepCancelled(m) ==
  /\ pc[m] = "lockSleep"
  /\ ctxDone[m]
  /\ Return(m, "ctxErr")
  /\ UNCHANGED << store, now, uniqueID, op, budget, faults, held, requests >>

\* lock, lines 185-189: after the loop.
LockExit(m) ==
  /\ pc[m] \in {"lockExit", "lockAcquired"}
  /\ Return(m, LockReturn(ctxDone[m]))
  /\ held' = [held EXCEPT ![m] =
                IF LockReturn(ctxDone[m]) = "ok"
                THEN lease[m].spec.acquireTime ELSE @]
  /\ UNCHANGED << store, now, uniqueID, op, budget, faults, requests >>

(* --------------------------- Extend, Unlock ---------------------------- *)

StartExtend(m) == Start(m, "Extend", "get", FALSE)

StartUnlock(m) == Start(m, "Unlock", "get", FALSE)

\* Extend line 213, Unlock lines 242-245: what the call writes into the
\* fetched spec.
Change(o, s, t) == IF o = "Extend" THEN Renew(s, t) ELSE Release(s)

\* Mutant of Get: Extend refuses to renew a lease that has expired.
GetChecksExpiration(m) ==
  /\ pc[m] = "get"
  /\ store.exists
  /\ IF /\ OwnerCheck(store.spec, uniqueID[m]) = "ok"
        /\ (op[m] = "Extend" => StillValid(store.spec, now))
     THEN /\ lease' = [lease EXCEPT ![m] =
                         [store EXCEPT !.spec = Change(op[m], store.spec, now)]]
          /\ pc' = [pc EXCEPT ![m] = "update"]
          /\ UNCHANGED << result, ctxDone >>
     ELSE Return(m, IF OwnerCheck(store.spec, uniqueID[m]) = "ok"
                    THEN "ErrNotLocked"
                    ELSE OwnerCheck(store.spec, uniqueID[m]))
  /\ requests' = [requests EXCEPT ![m] = @ + 1]
  /\ UNCHANGED << store, now, uniqueID, op, budget, faults, held >>

\* Extend lines 197-213, Unlock lines 225-245: Get succeeds; the ownership
\* checks end the call or the change is written into the fetched object.
Get(m) ==
  /\ pc[m] = "get"
  /\ store.exists
  /\ IF OwnerCheck(store.spec, uniqueID[m]) = "ok"
     THEN /\ lease' = [lease EXCEPT ![m] =
                         [store EXCEPT !.spec = Change(op[m], store.spec, now)]]
          /\ pc' = [pc EXCEPT ![m] = "update"]
          /\ UNCHANGED << result, ctxDone >>
     ELSE Return(m, OwnerCheck(store.spec, uniqueID[m]))
  /\ requests' = [requests EXCEPT ![m] = @ + 1]
  /\ UNCHANGED << store, now, uniqueID, op, budget, faults, held >>

\* Extend lines 197-200, Unlock lines 225-228: Get fails (the record does
\* not exist, or the store fails).
GetNotFound(m) ==
  /\ pc[m] = "get"
  /\ ~store.exists
  /\ Return(m, "ErrNotLocked")
  /\ requests' = [requests EXCEPT ![m] = @ + 1]
  /\ UNCHANGED << store, now, uniqueID, op, budget, faults, held >>

GetFails(m) ==
  /\ pc[m] = "get"
  /\ faults < MaxFaults
  /\ faults' = faults + 1
  /\ Return(m, "ErrNotLocked")
  /\ requests' = [requests EXCEPT ![m] = @ + 1]
  /\ UNCHANGED << store, now, uniqueID, op, budget, held >>

\* Extend lines 216-219, Unlock lines 247-250: the Update is accepted.
Update(m) ==
  /\ pc[m] = "update"
  /\ UpdateAccepted(lease[m])
  /\ store' = Updated(lease[m])
  /\ held' = [held EXCEPT ![m] =
                IF op[m] = "Unlock" THEN None
                ELSE IF @ # None THEN lease[m].spec.renewTime ELSE @]
  /\ Return(m, "ok")
  /\ requests' = [requests EXCEPT ![m] = @ + 1]
  /\ UNCHANGED << now, uniqueID, op, budget, faults >>

\* Mutant of UpdateConflict: the error of the rejected Update is ignored.
UpdateConflictIgnored(m) ==
  /\ pc[m] = "update"
  /\ ~UpdateAccepted(lease[m])
  /\ Return(m, "ok")
  /\ requests' = [requests EXCEPT ![m] = @ + 1]
  /\ UNCHANGED << store, now, uniqueID, op, budget, faults, held >>

\* The Update is rejected (a conflict) or fails for another reason.
UpdateConflict(m) ==
  /\ pc[m] = "update"
  /\ ~UpdateAccepted(lease[m])
  /\ Return(m, "storeErr")
  /\ requests' = [requests EXCEPT ![m] = @ + 1]
  /\ UNCHANGED << store, now, uniqueID, op, budget, faults, held >>

UpdateFails(m) ==
  /\ pc[m] = "update"
  /\ faults < MaxFaults
  /\ faults' = faults + 1
  /\ Return(m, "storeErr")
  /\ requests' = [requests EXCEPT ![m] = @ + 1]
  /\ UNCHANGED << store, now, uniqueID, op, budget, held >>

(* ---------------------------- specification ---------------------------- *)

(* ------------------- a record written by another client ---------------- *)

\* Held Lease records that a client other than this library left behind
\* under the lock's name: one without a duration, one without an acquire
\* time.
ForeignRecords ==
  { [ exists |-> TRUE, resourceVersion |-> 1,
      spec |-> [ EmptySpec EXCEPT !.holderIdentity = Some(<<"other", 0>>),
                                  !.acquireTime    = Some(0) ] ],
    [ exists |-> TRUE, resourceVersion |-> 1,
      spec |-> [ EmptySpec EXCEPT !.holderIdentity       = Some(<<"other", 0>>),
                                  !.renewTime            = Some(0),
                                  !.leaseDurationSeconds = Some(expiration) ] ] }

\* The name is fresh or carries such a record.
InitForeign ==
  /\ store \in {NoLease} \cup ForeignRecords
  /\ now = 0
  /\ uniqueID \in Identities
  /\ pc = [m \in Mutexes |-> "idle"]
  /\ op = [m \in Mutexes |-> "none"]
  /\ ctxDone = [m \in Mutexes |-> FALSE]
  /\ lease = [m \in Mutexes |-> NoLease]
  /\ result = [m \in Mutexes |-> "none"]
  /\ budget = MaxCalls
  /\ faults = 0
  /\ held = [m \in Mutexes |-> None]
  /\ requests = [m \in Mutexes |-> 0]

\* The steps of a call in progress that need neither a store failure nor a
\* cancellation.
Step(m) ==
  \/ LockCreate(m)
  \/ LockGet(m)
  \/ LockUpdate(m)
  \/ LockUpdateConflict(m)
  \/ LockSleepDone(m)
  \/ LockExit(m)
  \/ Get(m)
  \/ GetNotFound(m)
  \/ Update(m)
  \/ UpdateConflict(m)

\* Calls with contexts that may be cancelled at any moment; the store answers
\* every request.
Next ==
  \/ Tick
  \/ \E m \in Mutexes :
       \/ StartLock(m, BOOLEAN)
       \/ StartExtend(m)
       \/ StartUnlock(m)
       \/ Step(m)
       \/ Cancel(m)
       \/ LockLoopExit(m)
       \/ LockSleepCancelled(m)

Spec == Init /\ [][Next]_vars

\* Calls with contexts that are never cancelled, against a store that may
\* fail requests.
NextFault ==
  \/ Tick
  \/ \E m \in Mutexes :
       \/ StartLock(m, {FALSE})
       \/ StartExtend(m)
       \/ StartUnlock(m)
       \/ Step(m)
       \/ LockCreateFails(m)
       \/ LockGetFails(m)
       \/ LockUpdateFails(m)
       \/ GetFails(m)
       \/ UpdateFails(m)

FaultSpec == Init /\ [][NextFault]_vars

\* Calls with contexts that are never cancelled, against a store that may
\* fail requests, on a name that is fresh or carries a foreign record.
ForeignSpec == InitForeign /\ [][NextFault]_vars

\* A holder and its contenders: each Mutex calls Lock at most once, as its
\* first call, no context is cancelled and the store answers every request.
\* A call in progress keeps running (its goroutine is scheduled); nothing
\* obliges a caller to start a call or the clock to advance.
InitLive ==
  /\ InitCommon
  /\ budget \in 1..MaxCalls

NextLive ==
  \/ Tick
  \/ \E m \in Mutexes :
       \/ op[m] = "none" /\ StartLock(m, {FALSE})
       \/ StartExtend(m)
       \/ StartUnlock(m)
       \/ Step(m)

LiveSpec ==
  /\ InitLive
  /\ [][NextLive]_vars
  /\ \A m \in Mutexes : WF_vars(Step(m))

(* ------------------------------- claims -------------------------------- *)

\* m is inside a Lock call.
InLock(m) == op[m] = "Lock" /\ pc[m] # "idle"

\* The last call of m was o and returned r.
Returned(m, o, r) == pc[m] = "idle" /\ op[m] = o /\ result[m] = r

\* m holds the lock as its caller sees it: its Lock returned success, it has
\* not unlocked, and the time its last successful Lock or Extend wrote is
\* less than the lease term ago.
Holding(m) == held[m] # None /\ now < Deref(held[m]) + expiration

\* The record is held by another identity than m's.
HeldByAnother(m) ==
  /\ store.exists
  /\ store.spec.holderIdentity # None
  /\ Deref(store.spec.holderIdentity) # uniqueID[m]

\* C1: mutual exclusion.  Two Mutexes with different identities never hold
\* the lock at once: while one is inside the window that its successful Lock
\* (or Extend) opened, no Lock of the other has returned success with a
\* window of its own that is still open.
C1_MutualExclusion ==
  \A a, b \in Mutexes :
    (a # b /\ uniqueID[a] # uniqueID[b]) => ~(Holding(a) /\ Holding(b))

\* C4: a Lock call that returns the cancellation error has had no claiming
\* Update accepted (it does not return from the break of line 177).
C4_CancelledLockClaimsNothing ==
  [][ \A m \in Mutexes :
        (InLock(m) /\ pc'[m] = "idle" /\ result'[m] = "ctxErr")
          => pc[m] # "lockAcquired" ]_vars

\* C5: an Unlock or Extend whose fetch shows a holder other than the caller
\* returns ErrLockedByAnother without issuing an Update, whether or not the
\* lease has expired; and no Update of an Unlock or Extend is accepted on a
\* record that another identity holds.
C5_NonHolderRejected ==
  [][ \A m \in Mutexes :
        /\ (pc[m] = "get" /\ pc'[m] # "get" /\ faults' = faults
              /\ HeldByAnother(m))
             => (pc'[m] = "idle" /\ result'[m] = "ErrLockedByAnother"
                  /\ store' = store)
        /\ (pc[m] = "update" /\ pc'[m] # "update" /\ HeldByAnother(m))
             => (result'[m] = "storeErr" /\ store' = store) ]_vars

\* C5 witness: a former holder whose expired lease was taken over was refused.
C5_Witness ==
  \E m \in Mutexes :
    /\ held[m] # None
    /\ HeldByAnother(m)
    /\ \/ Returned(m, "Unlock", "ErrLockedByAnother")
       \/ Returned(m, "Extend", "ErrLockedByAnother")

\* C6: an Unlock or Extend whose fetch finds no record, fails, or shows no
\* holder returns ErrNotLocked without issuing an Update.
C6_NotLocked ==
  [][ \A m \in Mutexes :
        (pc[m] = "get" /\ pc'[m] # "get"
          /\ (~store.exists \/ faults' # faults
                \/ store.spec.holderIdentity = None))
        => (pc'[m] = "idle" /\ result'[m] = "ErrNotLocked"
             /\ store' = store) ]_vars

\* C6 witness: Unlock was refused on a record that had been locked and
\* unlocked by the caller itself.
C6_Witness ==
  \E m \in Mutexes :
    /\ Returned(m, "Unlock", "ErrNotLocked")
    /\ store.exists
    /\ store.spec.holderIdentity = None
    /\ store.spec.leaseTransitions = Some(1)
    /\ \A o \in Mutexes \ {m} : op[o] = "none"

\* C7: an accepted Update of Extend changes only renewTime, to a time read
\* during the call that is not earlier than acquireTime nor than the renewTime
\* it replaces.
C7_ExtendFrame ==
  [][ \A m \in Mutexes :
        (pc[m] = "update" /\ op[m] = "Extend" /\ result'[m] = "ok")
        => /\ store'.exists
           /\ store'.spec.renewTime # None
           /\ store'.spec =
                [store.spec EXCEPT !.renewTime = store'.spec.renewTime]
           /\ store.spec.holderIdentity = Some(uniqueID[m])
           /\ Deref(store'.spec.renewTime) <= now
           /\ Deref(store'.spec.renewTime) >= Deref(store.spec.acquireTime)
           /\ store.spec.renewTime # None =>
                Deref(store'.spec.renewTime) >= Deref(store.spec.renewTime)
    ]_vars

\* C7 witness: Extend succeeded and renewTime is later than acquireTime.
C7_Witness ==
  \E m \in Mutexes :
    /\ Returned(m, "Extend", "ok")
    /\ store.spec.holderIdentity = Some(uniqueID[m])
    /\ store.spec.renewTime # None
    /\ Deref(store.spec.renewTime) > Deref(store.spec.acquireTime)

\* C8: an accepted Update of Unlock leaves the record in place with
\* holderIdentity, acquireTime, renewTime and leaseDurationSeconds unset and
\* transitions as it was.
C8_UnlockFrame ==
  [][ \A m \in Mutexes :
        (pc[m] = "update" /\ op[m] = "Unlock" /\ result'[m] = "ok")
        => /\ store'.exists
           /\ store.spec.leaseTransitions # None
           /\ store'.spec =
                [EmptySpec EXCEPT
                   !.leaseTransitions = store.spec.leaseTransitions] ]_vars

\* C8 witness: Unlock succeeded on a lease that had been renewed.
C8_Witness ==
  \E m \in Mutexes :
    /\ Returned(m, "Unlock", "ok")
    /\ store.exists
    /\ store.spec.holderIdentity = None
    /\ store.spec.leaseTransitions # None
    /\ \E o \in Mutexes : Returned(o, "Extend", "ok")

\* C9: while the record is as a Lock's accepted Update wrote it, renewTime
\* is absent, also when the Lock took over an expired lease.  Stated for
\* Mutexes of different identities, so that every Extend is the holder's own.
C9_NoRenewTimeAfterLock ==
  \A m, o \in Mutexes :
    (m # o /\ uniqueID[m] # uniqueID[o]
      /\ pc[m] = "lockAcquired"
      /\ store.resourceVersion = lease[m].resourceVersion + 1)
    => store.spec.renewTime = None

\* C10: a Mutex that never called Lock cannot Unlock or Extend the lock
\* another Mutex holds.  Stated for the first two calls of a run: one Mutex
\* holds the lock after its own Lock, and the only call of the other, an
\* Unlock or an Extend, did not succeed.
C10_IndependentContenders ==
  \A m1, m2 \in Mutexes :
    (m1 # m2 /\ budget = MaxCalls - 2 /\ Holding(m1)
      /\ pc[m2] = "idle" /\ op[m2] \in {"Unlock", "Extend"})
    => result[m2] # "ok"

\* C2: a Lock call in progress while a Mutex of another identity unlocks
\* returns success, without the clock having to advance.
C2_UnblockedByUnlock ==
  \A a, b \in Mutexes :
    (a # b /\ uniqueID[a] # uniqueID[b]
      /\ Returned(a, "Unlock", "ok") /\ InLock(b))
    ~> Returned(b, "Lock", "ok")

\* C2 witness: the holder's Unlock has succeeded while the contender sleeps
\* on the lease it saw held.
C2_Witness ==
  \E a, b \in Mutexes :
    /\ uniqueID[a] # uniqueID[b]
    /\ Returned(a, "Unlock", "ok")
    /\ pc[b] = "lockSleep"
    /\ store.spec.holderIdentity = None

\* The holder a has stopped for good after its Lock, and its lease is past
\* its expiration time.
DeadHolderExpired(a) ==
  /\ Returned(a, "Lock", "ok")
  /\ budget = 0
  /\ store.spec.holderIdentity = Some(uniqueID[a])
  /\ now >= LastUpdatedTime(store.spec)
              + Deref(store.spec.leaseDurationSeconds)

\* C3: once a dead holder's lease has expired, the polling contender's Lock
\* returns success.
C3_CrashRecovery ==
  \A a, b \in Mutexes :
    (a # b /\ uniqueID[a] # uniqueID[b] /\ DeadHolderExpired(a) /\ InLock(b))
    ~> Returned(b, "Lock", "ok")

\* C3 witness: the contender sleeps on the dead holder's lease, which has
\* expired since.
C3_Witness ==
  \E a, b \in Mutexes :
    /\ uniqueID[a] # uniqueID[b]
    /\ DeadHolderExpired(a)
    /\ pc[b] = "lockSleep"

\* leaseTransitions of a spec, an absent counter read as 0.
Transitions(s) ==
  IF s.leaseTransitions = None THEN 0 ELSE Deref(s.leaseTransitions)

\* Some Lock has its claiming Update accepted in this step.
ClaimAccepted ==
  \E m \in Mutexes : pc[m] = "lockUpdate" /\ pc'[m] = "lockAcquired"

\* C11: leaseTransitions never decreases.  A step in which the claiming
\* Update of a Lock is accepted increases it by exactly one (an absent
\* counter read as 0); every other step, the accepted Updates of Extend and
\* Unlock included, leaves it as it is.  The Lock that claims the record of
\* a fresh name after one Lock and one Unlock (the record unlocked at
\* version 3) leaves the counter at 2.
C11_TransitionsCount ==
  [][ /\ Transitions(store'.spec) >= Transitions(store.spec)
      /\ ClaimAccepted =>
           Transitions(store'.spec) = Transitions(store.spec) + 1
      /\ ~ClaimAccepted =>
           store'.spec.leaseTransitions = store.spec.leaseTransitions
      /\ \A m \in Mutexes :
           ( /\ pc[m] = "lockUpdate" /\ pc'[m] = "lockAcquired"
             /\ store.spec.holderIdentity = None
             /\ store.resourceVersion = 3 )
           => store'.spec.leaseTransitions = Some(2)
    ]_vars

\* Lock, Unlock, Lock by one Mutex alone on a fresh name have returned
\* success and the counter is 2.
C11_Witness ==
  \E m \in Mutexes :
    /\ Returned(m, "Lock", "ok")
    /\ budget = MaxCalls - 3
    /\ \A o \in Mutexes \ {m} : op[o] = "none"
    /\ store.spec.holderIdentity = Some(uniqueID[m])
    /\ store.resourceVersion = 4
    /\ store.spec.leaseTransitions = Some(2)

\* C12: on a record that only Lock, Extend and Unlock have created and
\* modified, a set holderIdentity comes with leaseDurationSeconds and
\* acquireTime set, and no Lock has returned the malformed-record error.
C12_WellFormed ==
  /\ store.spec.holderIdentity # None =>
       /\ store.spec.leaseDurationSeconds # None
       /\ store.spec.acquireTime # None
  /\ \A m \in Mutexes : result[m] # "malformed"

\* The record is held after a release and a renewal: a Lock has claimed a
\* record that an Unlock had cleared, and an Extend has renewed it.
C12_Witness ==
  /\ store.spec.holderIdentity # None
  /\ store.spec.renewTime # None
  /\ Transitions(store.spec) = 2
  /\ \E m \in Mutexes : Returned(m, "Extend", "ok")

\* C13: a store failure other than Create's already-exists and a lost
\* conflict is returned the first time it occurs: the call whose create, get
\* or update request failed for such a reason ends in that step with an
\* error, and does not go on to sleep and retry.
C13_FailureReturnedAtOnce ==
  [][ \A m \in Mutexes :
        (faults' # faults /\ pc'[m] # pc[m]) =>
          /\ pc'[m] = "idle"
          /\ result'[m] \in {"storeErr", "ErrNotLocked"}
    ]_vars

\* m's Extend or Unlock fetches a record that m's identity does not hold.
FetchesUnowned(m) ==
  /\ pc[m] = "get"
  /\ pc'[m] # "get"
  /\ faults' = faults
  /\ \/ store.spec.holderIdentity = None
     \/ Deref(store.spec.holderIdentity) # uniqueID[m]

\* An Extend or Unlock whose ownership check fails returns in that step,
\* having issued its Get only, and the record is as it was.
NoUpdateWhenUnowned(m) ==
  FetchesUnowned(m) =>
    /\ pc'[m] = "idle"
    /\ result'[m] \in {"ErrNotLocked", "ErrLockedByAnother"}
    /\ requests'[m] = 1
    /\ store' = store

\* An Extend or Unlock whose Update has been answered returns in that step,
\* whatever the answer: it neither sleeps nor fetches again.
NoRetry(m) ==
  (pc[m] = "update" /\ pc'[m] # "update") => pc'[m] = "idle"

\* C14 as stated: Extend and Unlock never retry or sleep, a single call
\* issues at most one store request in total, and no Update is issued when
\* the ownership check fails.
C14_OneRequest ==
  [][ \A m \in Mutexes :
        op'[m] \in {"Extend", "Unlock"} =>
          /\ requests'[m] <= 1
          /\ NoRetry(m)
          /\ NoUpdateWhenUnowned(m)
    ]_vars

\* C14, amended: Extend and Unlock never retry or sleep, a single call
\* issues at most two store requests in total (one Get and, when the
\* ownership check passes, one Update), and no Update is issued when the
\* ownership check fails.
C14_TwoRequests ==
  [][ \A m \in Mutexes :
        op'[m] \in {"Extend", "Unlock"} =>
          /\ requests'[m] <= 2
          /\ requests'[m] = 2 => pc'[m] = "idle"
          /\ NoRetry(m)
          /\ NoUpdateWhenUnowned(m)
    ]_vars

\* An Unlock has returned success after its Get and its Update, and an
\* Extend of the other Mutex has ended at the ownership check after its Get.
C14_Witness ==
  \E m, o \in Mutexes :
    /\ Returned(m, "Unlock", "ok")
    /\ requests[m] = 2
    /\ Returned(o, "Extend", "ErrNotLocked")
    /\ requests[o] = 1

\* C15: of the Lock calls that fetched the same version of a claimable
\* record, exactly one has its conditional Update accepted.  The Update of a
\* call that fetched the version the store still holds is accepted, raises
\* leaseTransitions by one and makes stale the pending Updates of the others
\* that fetched that version; the Update of a call whose fetched version is
\* gone changes nothing, and the call does not return success from that
\* attempt but goes to sleep before it fetches again.
C15_OneWinnerPerVersion ==
  [][ /\ \A m \in Mutexes :
           (pc[m] = "lockUpdate" /\ pc'[m] # "lockUpdate") =>
             IF lease[m].resourceVersion = store.resourceVersion
             THEN /\ pc'[m] = "lockAcquired"
                  /\ Transitions(store'.spec) = Transitions(store.spec) + 1
                  /\ \A o \in Mutexes \ {m} :
                       ( /\ pc[o] = "lockUpdate"
                         /\ lease[o].resourceVersion = lease[m].resourceVersion )
                       => lease'[o].resourceVersion # store'.resourceVersion
             ELSE /\ pc'[m] = "lockSleep"
                  /\ result'[m] = "pending"
                  /\ store' = store
      /\ \A m, o \in Mutexes :
           ( /\ m # o
             /\ pc'[m] = "lockAcquired"
             /\ pc'[o] = "lockAcquired" )
           => lease'[m].resourceVersion # lease'[o].resourceVersion
    ]_vars

\* Two Lock calls fetched the same version of an unlocked record; the Update
\* of one was accepted and the Update of the other is still to be answered.
C15_Witness ==
  \E m, o \in Mutexes :
    /\ m # o
    /\ pc[m] = "lockAcquired"
    /\ pc[o] = "lockUpdate"
    /\ lease[o].resourceVersion = lease[m].resourceVersion
    /\ Transitions(store.spec) = Transitions(lease[o].spec)

\* C16: an Extend or Unlock that fetched the record while it named its own
\* identity, and whose Update is answered after the record has changed,
\* returns the store's error, and the record stays as the other participant
\* wrote it.
C16_StaleWriteRejected ==
  [][ \A m \in Mutexes :
        ( /\ pc[m] = "update"
          /\ pc'[m] # "update"
          /\ lease[m].resourceVersion # store.resourceVersion )
        => /\ pc'[m] = "idle"
           /\ result'[m] = "storeErr"
           /\ store' = store
    ]_vars

\* An Extend or Unlock of a Mutex has returned the store's error and the
\* record is held by the other identity, which claimed it in between.
C16_Witness ==
  \E m \in Mutexes :
    /\ op[m] \in {"Extend", "Unlock"}
    /\ pc[m] = "idle"
    /\ result[m] = "storeErr"
    /\ requests[m] = 2
    /\ HeldByAnother(m)

\* A well-formed spec can be claimed at time t: no holder, or the renew time
\* (the acquire time when there is none) plus the duration is not after t.
Claimable(s, t) ==
  \/ s.holderIdentity = None
  \/ (IF s.renewTime = None THEN Deref(s.acquireTime)
      ELSE Deref(s.renewTime)) + Deref(s.leaseDurationSeconds) <= t

\* C17: in an iteration of Lock's loop whose fetch returned a well-formed
\* record, the claiming Update is issued exactly when the holder is unset or
\* the renew time (the acquire time when absent) plus the duration is not
\* after the current time, an expiration equal to the current time counting
\* as expired; otherwise the call sleeps and the record is left alone.  An
\* accepted claim leaves the record with the caller's identity, the acquire
\* time read in that iteration, the configured duration and the old counter
\* plus one.
C17_ClaimIffExpired ==
  [][ \A m \in Mutexes :
        /\ (pc[m] = "lockLoop" /\ pc'[m] \notin {"lockLoop", "lockExit"}) =>
             IF Claimable(store.spec, now)
             THEN /\ pc'[m] = "lockUpdate"
                  /\ lease'[m].resourceVersion = store.resourceVersion
                  /\ lease'[m].spec.acquireTime = Some(now)
             ELSE /\ pc'[m] = "lockSleep"
                  /\ store' = store
        /\ (pc[m] = "lockUpdate" /\ pc'[m] = "lockAcquired") =>
             /\ store'.spec.holderIdentity = Some(uniqueID[m])
             /\ store'.spec.acquireTime = lease[m].spec.acquireTime
             /\ store'.spec.leaseDurationSeconds = Some(expiration)
             /\ Transitions(store'.spec) = Transitions(store.spec) + 1
    ]_vars

\* A Lock is about to submit its claim of a held record whose expiration is
\* exactly the time the call read.
C17_Witness ==
  \E m \in Mutexes :
    /\ pc[m] = "lockUpdate"
    /\ lease[m].resourceVersion = store.resourceVersion
    /\ store.spec.holderIdentity # None
    /\ LastUpdatedTime(store.spec) + Deref(store.spec.leaseDurationSeconds)
         = Deref(lease[m].spec.acquireTime)

\* C18: a Lock whose fetch returns a record with a holder but without a
\* duration or without an acquire time returns the malformed-record error in
\* that step, without sleeping, fetching again or issuing an Update; a Lock
\* whose fetch fails, or whose Create fails otherwise than with
\* already-exists, returns the store's error in that step, before any Update.
C18_FatalAtFirstFetch ==
  [][ \A m \in Mutexes :
        /\ ( /\ pc[m] = "lockLoop"
             /\ pc'[m] # "lockLoop"
             /\ faults' = faults
             /\ store.spec.holderIdentity # None
             /\ \/ store.spec.leaseDurationSeconds = None
                \/ store.spec.acquireTime = None )
           => /\ pc'[m] = "idle"
              /\ result'[m] = "malformed"
              /\ store' = store
        /\ ( /\ pc[m] \in {"lockCreate", "lockLoop"}
             /\ pc'[m] # pc[m]
             /\ faults' # faults )
           => /\ pc'[m] = "idle"
              /\ result'[m] = "storeErr"
              /\ store' = store
    ]_vars

\* A Lock has returned the malformed-record error on a record without an
\* acquire time, which is as the other client left it.
C18_Witness ==
  \E m \in Mutexes :
    /\ Returned(m, "Lock", "malformed")
    /\ store \in ForeignRecords
    /\ store.spec.acquireTime = None

\* C19: Lock is not reentrant.  A Lock that fetches an unexpired lease held
\* by its own identity sleeps like any contender; its claim of a record that
\* names its own identity is accepted only for a lease that had expired when
\* the claim was prepared, and then raises leaseTransitions by one and moves
\* acquireTime to the time of the claim.
C19_NotReentrant ==
  [][ \A m \in Mutexes :
        /\ ( /\ pc[m] = "lockLoop"
             /\ pc'[m] \notin {"lockLoop", "lockExit"}
             /\ store.spec.holderIdentity = Some(uniqueID[m])
             /\ ~Claimable(store.spec, now) )
           => /\ pc'[m] = "lockSleep"
              /\ store' = store
        /\ ( /\ pc[m] = "lockUpdate"
             /\ pc'[m] = "lockAcquired"
             /\ store.spec.holderIdentity = Some(uniqueID[m]) )
           => /\ Claimable(store.spec, Deref(lease[m].spec.acquireTime))
              /\ Transitions(store'.spec) = Transitions(store.spec) + 1
              /\ store'.spec.acquireTime = lease[m].spec.acquireTime
              /\ Deref(store'.spec.acquireTime) >= Deref(store.spec.acquireTime)
    ]_vars

\* One Mutex alone has called Lock twice without Unlock: the second call has
\* returned success after the lease of the first expired, with the counter
\* at 2 and a later acquire time.
C19_Witness ==
  \E m \in Mutexes :
    /\ Returned(m, "Lock", "ok")
    /\ budget = MaxCalls - 2
    /\ \A o \in Mutexes \ {m} : op[o] = "none"
    /\ store.spec.holderIdentity = Some(uniqueID[m])
    /\ Transitions(store.spec) = 2
    /\ Deref(store.spec.acquireTime) >= expiration

\* The times the clock can show.
Times == 0 .. MaxTicks * Quantum

\* C20: Extend does not look at the expiration.  An Extend of the holder
\* that fetches its lease expired but not yet claimed goes on to its Update
\* with the renew time set to the current time; when that Update is accepted
\* the record is unexpired at every time before renewTime plus the duration,
\* and the claim of a contender that fetched the expired record before is
\* stale: its Update changes nothing and sends it back to sleep.
C20_ExtendRevives ==
  [][ \A m \in Mutexes :
        /\ ( /\ op[m] = "Extend"
             /\ pc[m] = "get"
             /\ pc'[m] # "get"
             /\ store.spec.holderIdentity = Some(uniqueID[m])
             /\ Claimable(store.spec, now) )
           => /\ pc'[m] = "update"
              /\ lease'[m].spec.renewTime = Some(now)
        /\ ( /\ op[m] = "Extend"
             /\ pc[m] = "update"
             /\ pc'[m] # "update"
             /\ lease[m].resourceVersion = store.resourceVersion )
           => /\ result'[m] = "ok"
              /\ store'.spec.renewTime = lease[m].spec.renewTime
              /\ \A t \in Times :
                   t < Deref(store'.spec.renewTime)
                         + Deref(store'.spec.leaseDurationSeconds)
                   => ~Claimable(store'.spec, t)
              /\ \A o \in Mutexes \ {m} :
                   ( /\ pc[o] = "lockUpdate"
                     /\ lease[o].resourceVersion = store.resourceVersion )
                   => lease'[o].resourceVersion # store'.resourceVersion
        /\ ( /\ pc[m] = "lockUpdate"
             /\ pc'[m] # "lockUpdate"
             /\ lease[m].resourceVersion # store.resourceVersion )
           => /\ pc'[m] = "lockSleep"
              /\ store' = store
    ]_vars

\* The holder's Extend has succeeded on a lease that had expired, and a
\* contender of another identity that fetched the expired record just before
\* is about to have its claim answered.
C20_Witness ==
  \E m, o \in Mutexes :
    /\ uniqueID[m] # uniqueID[o]
    /\ Returned(m, "Extend", "ok")
    /\ store.spec.holderIdentity = Some(uniqueID[m])
    /\ store.spec.renewTime # None
    /\ Deref(store.spec.renewTime)
         >= Deref(store.spec.acquireTime) + expiration
    /\ now < Deref(store.spec.renewTime) + expiration
    /\ pc[o] = "lockUpdate"
    /\ lease[o].resourceVersion + 1 = store.resourceVersion
    /\ lease[o].spec.renewTime = None

====
